---- MODULE Spec2Model ----
(***************************************************************************)
(* Model of the amara-ai scoring and feature-fusion engine                  *)
(* (backend/app/services/scoring_engine.py and its collaborators).         *)
(*                                                                          *)
(* Numbers.  The code computes with Python floats.  The model computes     *)
(* with exact rationals <<n, d>> in lowest terms (d > 0), so every score   *)
(* is the real number the float expression denotes; binary rounding of the *)
(* float operations (at most a few ulp) is not represented.                *)
(* Optional[float]: None is the empty tuple <<>>.                          *)
(***************************************************************************)
EXTENDS Integers, Sequences, FiniteSets, TLC

----------------------------------------------------------------------------
(* Bounds of the model *)

\* Scores fed to the engine are the grid points k / Scale, k \in 0..Scale.
Scale == 10

\* Bill lists handed to prepare_features have at most MaxBills bills.
MaxBills == 2

\* Reads of the classifier file are counted up to MaxLoads.
MaxLoads == 2

\* Years that pass between two assessments of the same request.
MaxYears == 2

----------------------------------------------------------------------------
(* float arithmetic, as exact rationals in lowest terms *)

None == <<>>

\* None where the other values are strings (an enum member, a text).
NoneStr == "None"

Abs(x) == IF x < 0 THEN -x ELSE x

RECURSIVE GCD(_, _)
GCD(a, b) == IF b = 0 THEN a ELSE GCD(b, a % b)

Rat(n, d) ==
    LET g == GCD(Abs(n), Abs(d))
        s == IF d < 0 THEN -1 ELSE 1
    IN  <<(s * n) \div g, (s * d) \div g>>

Zero == Rat(0, 1)
One  == Rat(1, 1)

RAdd(a, b) == Rat(a[1] * b[2] + b[1] * a[2], a[2] * b[2])
RSub(a, b) == Rat(a[1] * b[2] - b[1] * a[2], a[2] * b[2])
RMul(a, b) == Rat(a[1] * b[1], a[2] * b[2])
RDiv(a, b) == Rat(a[1] * b[2], a[2] * b[1])
RLt(a, b)  == a[1] * b[2] < b[1] * a[2]
RLe(a, b)  == a[1] * b[2] <= b[1] * a[2]
RMax(a, b) == IF RLt(a, b) THEN b ELSE a
RMin(a, b) == IF RLt(b, a) THEN b ELSE a

\* The grid of scores in [0,1] and Optional[score].
Grid    == {Rat(k, Scale) : k \in 0..Scale}
OptGrid == Grid \cup {None}

----------------------------------------------------------------------------
(* scoring_engine.py: score fusion *)

DEFAULT_WEIGHTS == [pod |-> Rat(70, 100), vision |-> Rat(15, 100), nlp |-> Rat(15, 100)]

\* Weight maps a caller may pass as `weights`: the default, one whose
\* values sum to less than 1 and one whose values sum to more than 1.
WeightMaps ==
    { DEFAULT_WEIGHTS,
      [pod |-> Rat(2, 5), vision |-> Rat(1, 5), nlp |-> Rat(1, 5)],
      [pod |-> Rat(1, 1), vision |-> Rat(1, 2), nlp |-> Rat(1, 2)] }

\* sum(d.values()) of a weights dict
SumValues(w) == RAdd(RAdd(w.pod, w.vision), w.nlp)

\* max(0.0, min(1.0, x))
Clamp01(x) == RMax(Zero, RMin(One, x))

\* Mutant: normalises by the pod weight alone and leaves the clamp out.
NormalizeScore_PodWeightNoClamp(weighted_sum, total_weight, pod) ==
    RMul(RDiv(weighted_sum, DEFAULT_WEIGHTS.pod), SumValues(DEFAULT_WEIGHTS))

\* Lines 58-64: the normalisation block, given the accumulated sums.
NormalizeScore(weighted_sum, total_weight, pod) ==
    IF RLt(Zero, total_weight)
    THEN Clamp01(RMul(RDiv(weighted_sum, total_weight), SumValues(DEFAULT_WEIGHTS)))
    ELSE pod

\* Mutant: the goodness score is weighted as it is, not inverted to risk.
SignalTerm_NoInversion(weight, score) ==
    IF score # None THEN <<RMul(weight, score), weight>> ELSE <<Zero, Zero>>

\* Mutant: an absent signal still adds its nominal weight to total_weight.
SignalTerm_AbsentKeepsWeight(weight, score) ==
    IF score # None
    THEN <<RMul(weight, RSub(One, score)), weight>>
    ELSE <<Zero, weight>>

\* Mutant: a present signal's weight is not added to total_weight.
SignalTerm_WeightNotAdded(weight, score) ==
    IF score # None
    THEN <<RMul(weight, RSub(One, score)), Zero>>
    ELSE <<Zero, Zero>>

\* Mutant: an absent signal is imputed as the neutral 0.5 and weighted.
SignalTerm_AbsentImputedNeutral(weight, score) ==
    IF score # None
    THEN <<RMul(weight, RSub(One, score)), weight>>
    ELSE <<RMul(weight, Rat(1, 2)), weight>>

\* One optional signal's contribution (lines 45-49 / 52-56): the pair
\* <<added to weighted_sum, added to total_weight>>.
SignalTerm(weight, score) ==
    IF score # None
    THEN <<RMul(weight, RSub(One, score)), weight>>
    ELSE <<Zero, Zero>>

\* Mutant: active_weights is a copy of the whole weights dict.
ActiveWeights_AllKeys(weights, vision_score, nlp_score) ==
    [k \in {"pod", "vision", "nlp"} |-> weights[k]]

\* The dict active_weights as built at lines 34, 42, 49 and 56: a function
\* whose domain is the set of keys present.
ActiveWeights(weights, vision_score, nlp_score) ==
    LET keys == {"pod"} \cup (IF vision_score # None THEN {"vision"} ELSE {})
                        \cup (IF nlp_score # None THEN {"nlp"} ELSE {})
    IN  [k \in keys |-> weights[k]]

\* calculate_final_score(pod, vision_score, nlp_score, weights)
\* returns (final_score, active_weights).  The record also carries the locals
\* weighted_sum and total_weight as they stand at line 58, and the dict
\* passed as `weights` as the call leaves it (the function only reads it).
calculate_final_score(pod, vision_score, nlp_score, weights) ==
    LET pod_weight == weights.pod
        v  == SignalTerm(weights.vision, vision_score)
        n  == SignalTerm(weights.nlp, nlp_score)
        weighted_sum == RAdd(RAdd(RAdd(Zero, RMul(pod_weight, pod)), v[1]), n[1])
        total_weight == RAdd(RAdd(RAdd(Zero, pod_weight), v[2]), n[2])
    IN  [final_score    |-> NormalizeScore(weighted_sum, total_weight, pod),
         active_weights |-> ActiveWeights(weights, vision_score, nlp_score),
         weighted_sum   |-> weighted_sum,
         total_weight   |-> total_weight,
         weights        |-> weights]

----------------------------------------------------------------------------
(* scoring_engine.py: explanation *)

\* f"{x:.1%}": x as a percentage with one decimal, here the number of
\* tenths of a percent, rounded to nearest with ties to even.
PerMille(x) ==
    LET num == 2000 * x[1] + x[2]
        den == 2 * x[2]
        q == num \div den
    IN  IF num % den = 0 /\ q % 2 = 1 THEN q - 1 ELSE q

\* Lines 80-85: the clause on the probability of default
PodClause(pod) ==
    IF RLe(Rat(7, 10), pod) THEN <<"pod", "High", PerMille(pod)>>
    ELSE IF RLe(Rat(1, 2), pod) THEN <<"pod", "Moderate", PerMille(pod)>>
    ELSE <<"pod", "Low", PerMille(pod)>>

\* Mutant: the middle tier of a signal clause starts at 0.5 as the pod's does.
SignalClause_PodThresholds(signal, score) ==
    IF score = None THEN <<>>
    ELSE IF RLe(Rat(7, 10), score) THEN << <<signal, "good">> >>
    ELSE IF RLe(Rat(1, 2), score) THEN << <<signal, "average">> >>
    ELSE << <<signal, "concern">> >>

\* Lines 88-94 / 97-103: the clause on an optional signal, as the list of
\* the parts appended (none when the score is None).
SignalClause(signal, score) ==
    IF score = None THEN <<>>
    ELSE IF RLe(Rat(7, 10), score) THEN << <<signal, "good">> >>
    ELSE IF RLe(Rat(2, 5), score) THEN << <<signal, "average">> >>
    ELSE << <<signal, "concern">> >>

\* generate_explanation(pod, vision_score, nlp_score, final_score,
\* risk_category): the list `parts`, which the code joins with blanks.
generate_explanation(pod, vision_score, nlp_score, final_score, risk_category) ==
    << PodClause(pod) >>
      \o SignalClause("vision", vision_score)
      \o SignalClause("nlp", nlp_score)
      \o << <<"closing", risk_category, PerMille(final_score)>> >>

----------------------------------------------------------------------------
(* models/assessment.py: decision policy *)

\* Mutant: the tier bounds are inclusive (<=) instead of exclusive (<).
get_risk_category_Inclusive(score) ==
    IF RLe(score, Rat(3, 10)) THEN "LOW"
    ELSE IF RLe(score, Rat(5, 10)) THEN "MEDIUM"
    ELSE IF RLe(score, Rat(7, 10)) THEN "HIGH"
    ELSE "VERY_HIGH"

get_risk_category(score) ==
    IF RLt(score, Rat(3, 10)) THEN "LOW"
    ELSE IF RLt(score, Rat(5, 10)) THEN "MEDIUM"
    ELSE IF RLt(score, Rat(7, 10)) THEN "HIGH"
    ELSE "VERY_HIGH"

\* Mutant: the recommendation bounds are inclusive (<=).
get_recommendation_Inclusive(score) ==
    IF RLe(score, Rat(4, 10)) THEN "APPROVE"
    ELSE IF RLe(score, Rat(6, 10)) THEN "REVIEW"
    ELSE "REJECT"

get_recommendation(score) ==
    IF RLt(score, Rat(4, 10)) THEN "APPROVE"
    ELSE IF RLt(score, Rat(6, 10)) THEN "REVIEW"
    ELSE "REJECT"

----------------------------------------------------------------------------
(* ml_inference.py: feature building *)

\* A date as the caller gives it: None, a string that is not a date, or a
\* calendar date (a day number).  Amounts are floats with integer values.
NoDate  == [kind |-> "none", day |-> 0]
BadDate == [kind |-> "bad", day |-> 0]
Day(n)  == [kind |-> "date", day |-> n]

\* pandas' NaT
NaT == [kind |-> "NaT", day |-> 0]

\* pd.to_datetime(x, errors="coerce"): None and unparseable text become NaT.
ToDatetime(d) == IF d.kind = "date" THEN d ELSE NaT

\* Mutant: a bill without a usable date pair counts as one day late.
BillGapDays_MissingIsLate(b) ==
    LET paid == ToDatetime(b.bill_paid_date)
        scheduled == ToDatetime(b.bill_scheduled_date)
    IN  IF paid = NaT \/ scheduled = NaT THEN 1 ELSE paid.day - scheduled.day

\* Lines 92-95: (paid - scheduled).dt.days, NaN where either date is NaT,
\* then fillna(0).
BillGapDays(b) ==
    LET paid == ToDatetime(b.bill_paid_date)
        scheduled == ToDatetime(b.bill_scheduled_date)
    IN  IF paid = NaT \/ scheduled = NaT THEN 0 ELSE paid.day - scheduled.day

\* Line 96: (bill_gap_days > 0).astype(int)
IsBillLate(b) == IF BillGapDays(b) > 0 THEN 1 ELSE 0

\* Series.sum() of an integer-valued column
RECURSIVE SumOf(_)
SumOf(col) == IF col = <<>> THEN 0 ELSE Head(col) + SumOf(Tail(col))

\* Series.mean()
MeanOf(col) == Rat(SumOf(col), Len(col))

\* Mutant: the guard on the total billed amount is missing; a zero total is
\* divided by (ZeroDivisionError for Python numbers, NaN or inf for numpy's),
\* here the not-a-number None.
PaidRatio_Unguarded(total_paid, total_amount) ==
    IF total_amount = 0 THEN None ELSE Rat(total_paid, total_amount)

\* Line 103
PaidRatio(total_paid, total_amount) ==
    IF total_amount > 0 THEN Rat(total_paid, total_amount) ELSE Zero

\* Mutant: the ratio is capped at 1.
OutstandingRatio_Capped(outstanding_amount, principal_amount) ==
    IF principal_amount > 0
    THEN RMin(One, Rat(outstanding_amount, principal_amount))
    ELSE Zero

\* Line 106
OutstandingRatio(outstanding_amount, principal_amount) ==
    IF principal_amount > 0 THEN Rat(outstanding_amount, principal_amount) ELSE Zero

\* Mutant: the empty bill list is not special-cased; the means of empty
\* columns are NaN, here None.
BillFeatures_NoEmptyCase(bills_data) ==
    LET gaps == [i \in 1..Len(bills_data) |-> BillGapDays(bills_data[i])]
        late == [i \in 1..Len(bills_data) |-> IsBillLate(bills_data[i])]
        total_amount == SumOf([i \in 1..Len(bills_data) |-> bills_data[i].amount])
        total_paid == SumOf([i \in 1..Len(bills_data) |-> bills_data[i].paid_amount])
    IN  [avg_bill_gap |-> IF bills_data = <<>> THEN None ELSE MeanOf(gaps),
         late_ratio   |-> IF bills_data = <<>> THEN None ELSE MeanOf(late),
         paid_ratio   |-> PaidRatio(total_paid, total_amount)]

\* Lines 84-103: avg_bill_gap, late_ratio, paid_ratio
BillFeatures(bills_data) ==
    IF bills_data = <<>>
    THEN [avg_bill_gap |-> Zero, late_ratio |-> Zero, paid_ratio |-> Zero]
    ELSE
    LET gaps == [i \in 1..Len(bills_data) |-> BillGapDays(bills_data[i])]
        late == [i \in 1..Len(bills_data) |-> IsBillLate(bills_data[i])]
        total_amount == SumOf([i \in 1..Len(bills_data) |-> bills_data[i].amount])
        total_paid == SumOf([i \in 1..Len(bills_data) |-> bills_data[i].paid_amount])
    IN  [avg_bill_gap |-> MeanOf(gaps),
         late_ratio   |-> MeanOf(late),
         paid_ratio   |-> PaidRatio(total_paid, total_amount)]

\* Mutant: the bracket bounds are exclusive.
categorize_age_Exclusive(age) ==
    IF age < 25 THEN "young"
    ELSE IF age < 35 THEN "adult"
    ELSE IF age < 50 THEN "mature"
    ELSE "senior"

\* categorize_age(age)
categorize_age(age) ==
    IF age <= 25 THEN "young"
    ELSE IF age <= 35 THEN "adult"
    ELSE IF age <= 50 THEN "mature"
    ELSE "senior"

\* Lines 109-113: whole years between the date of birth and today, 0
\* when the date of birth is missing or unparseable.
AgeOf(date_of_birth, today) ==
    LET dob == ToDatetime(date_of_birth)
    IN  IF dob # NaT THEN (today.day - dob.day) \div 365 ELSE 0

\* Mutant: late_ratio and paid_ratio change places in the dict literal.
FeatureKeys_Swapped ==
    <<"principal_amount", "outstanding_amount", "outstanding_ratio",
      "avg_bill_gap", "paid_ratio", "late_ratio", "marital_status", "age_group">>

\* The keys of the dict literal at lines 117-126, in the order written:
\* the insertion order of `features` and the column order of the DataFrame.
FeatureKeys ==
    <<"principal_amount", "outstanding_amount", "outstanding_ratio",
      "avg_bill_gap", "late_ratio", "paid_ratio", "marital_status", "age_group">>

\* prepare_features(...): the feature dict.  clock is what date.today()
\* answers during the call; customer_number and dpd are not read.
prepare_features(principal_amount, outstanding_amount, marital_status, date_of_birth, bills_data, today, clock) ==
    LET today_used == IF today = NoDate THEN clock ELSE today
        bf == BillFeatures(bills_data)
    IN  [principal_amount   |-> principal_amount,
         outstanding_amount |-> outstanding_amount,
         outstanding_ratio  |-> OutstandingRatio(outstanding_amount, principal_amount),
         avg_bill_gap       |-> bf.avg_bill_gap,
         late_ratio         |-> bf.late_ratio,
         paid_ratio         |-> bf.paid_ratio,
         marital_status     |-> marital_status,
         age_group          |-> categorize_age(AgeOf(date_of_birth, today_used))]

----------------------------------------------------------------------------
(* State *)

VARIABLES
    fuse_args,          \* arguments of the calculate_final_score call under test, or None
    fuse_ret,           \* what that call returned, or None before the call
    pol_score,          \* the score handed to the decision policy, or None
    pol_category,       \* get_risk_category(pol_score), or None before the call
    pol_recommendation, \* get_recommendation(pol_score), or None before the call
    default_weights,    \* the content of the module's DEFAULT_WEIGHTS dict
    explanation         \* generate_explanation on the call under test, or None

varsScore ==
    <<fuse_args, fuse_ret, pol_score, pol_category, pol_recommendation, default_weights,
      explanation>>

VARIABLES
    settings_attrs,     \* which of MODEL_PATH, GEMINI_API_KEY the settings object provides
    api_key,            \* settings.GEMINI_API_KEY where provided ("" = unset)
    artifact,           \* the classifier file at MODEL_PATH: "absent", "corrupt" or "ok"
    model_cache,        \* ml_inference._model: NoneStr or "model"
    client_cache,       \* gemini_service._client: NoneStr or "client"
    proc,               \* per caller: position in assess_loan, its locals, its outcome
    clock,              \* what date.today() answers
    load_log,           \* how often get_model was called, the classifier file read
                        \* and a classifier loaded from it, each counted up to MaxLoads
    cache_writer,       \* which caller's call assigned _model and _client
    prev                \* the request and outcome of the caller's previous assessment
                        \* where the callers repeat a request, else None

varsAssess ==
    <<settings_attrs, api_key, artifact, model_cache, client_cache, proc, clock, load_log,
      cache_writer, prev>>

VARIABLES
    ad_call,            \* the adapter call under test (function, arguments, what the
                        \* assessor will answer), or None
    ad_ret              \* what that call returned or raised, or None before the call

varsAdapter == <<ad_call, ad_ret>>

VARIABLES
    feat_args,          \* arguments of the prepare_features call under test, or None
    feat_ret,           \* the feature dict it returned, or None before the call
    feat_columns        \* the keys of that dict in insertion order (the columns of
                        \* the DataFrame handed to the classifier), or None

varsFeatures == <<feat_args, feat_ret, feat_columns>>

vars == <<varsScore, varsAssess, varsAdapter, varsFeatures>>

----------------------------------------------------------------------------
(* The orchestrator's world: configuration, requests, external assessors *)

Callers == {"a", "b"}

\* core/config.py: class Settings declares neither MODEL_PATH nor
\* GEMINI_API_KEY, the two attributes the services read; reading an
\* attribute the settings object does not provide raises AttributeError.
\* settings_attrs = SettingsDeclared is Settings as config.py declares it,
\* SettingsAssumed a settings object that provides what the services read.
SettingsDeclared == {}
SettingsAssumed  == {"MODEL_PATH", "GEMINI_API_KEY"}

\* Python truthiness of an Optional[str]
Truthy(x) == x \notin {NoneStr, ""}

\* not s or not s.strip()
Blank(x) == x \in {NoneStr, "", "   "}

\* Path(p).exists() on the server's file system: photo.jpg is an image,
\* broken.jpg a file PIL cannot open, missing.jpg does not exist.
PathExists(p) == p \in {"photo.jpg", "broken.jpg"}

\* Image.open(path) succeeds
ImageOpens(p) == p = "photo.jpg"

\* base64.b64decode and Image.open(io.BytesIO(...)) succeed
Base64Decodes(b) == b = "b64image"

\* LoanAssessmentRequest (models/assessment.py:27-38) declares no
\* business_image_base64 / home_image_base64; assess_loan reads both.
\* has_b64_fields = FALSE is the request as declared; TRUE is a request
\* object that also carries the two attributes assess_loan reads.
\* The loan fields are those of one customer, 25 years and 200 days old on
\* day 20000, without bills.
Requests ==
    { r \in [principal_amount      : {2},
             outstanding_amount    : {1},
             marital_status        : {"MARRIED"},
             date_of_birth         : {Day(20000 - 365 * 25 - 200)},
             bills_data            : {<<>>},
             business_image_path   : {NoneStr, "missing.jpg", "photo.jpg"},
             home_image_path       : {NoneStr, "photo.jpg"},
             field_agent_notes     : {NoneStr, "", "   ", "cooperative"},
             has_b64_fields        : BOOLEAN,
             business_image_base64 : {NoneStr, "b64image"},
             home_image_base64     : {NoneStr, "b64image"}] :
        ~r.has_b64_fields =>
            (r.business_image_base64 = NoneStr /\ r.home_image_base64 = NoneStr) }

\* What model.predict_proba may return for a request (the classifier is opaque).
PodOutcomes == {Rat(1, 5), Rat(1, 2), Rat(9, 10)}

\* What open() / pickle.load raise on a file that exists and is not a
\* loadable classifier.
LoadErrors == {"UnpicklingError", "EOFError", "PermissionError"}

\* What the external assessor does on one generate_content call: raises;
\* answers text that is not JSON; answers a JSON object without the score
\* field; answers a score that float() rejects; answers a number.
AssessorResponses ==
    { [kind |-> k, value |-> None] : k \in {"raise", "not_json", "no_field", "not_number"} }
    \cup { [kind |-> "number", value |-> v] : v \in {Rat(1, 10), One, Rat(3, 2)} }

\* Lines 104-110 / 178-184 of gemini_service.py inside their try/except:
\* float(data.get(key, 0.5)) on the parsed response, 0.5 on any exception.
ScoreFromResponse(resp) ==
    CASE resp.kind = "raise"      -> Rat(1, 2)
      [] resp.kind = "not_json"   -> Rat(1, 2)
      [] resp.kind = "no_field"   -> Rat(1, 2)
      [] resp.kind = "not_number" -> Rat(1, 2)
      [] resp.kind = "number"     -> resp.value

\* get_gemini_client(): [exc, client, cache] - the exception it raises (or
\* NoneStr), the client it returns (NoneStr = None) and _client afterwards.
\* init_ok: whether genai.Client(...) can be imported and constructed.
get_gemini_client(cache, init_ok) ==
    IF cache # NoneStr
    THEN [exc |-> NoneStr, client |-> cache, cache |-> cache]
    ELSE IF "GEMINI_API_KEY" \notin settings_attrs
    THEN [exc |-> "AttributeError", client |-> NoneStr, cache |-> cache]
    ELSE IF api_key = "" \/ ~init_ok
    THEN [exc |-> NoneStr, client |-> NoneStr, cache |-> cache]
    ELSE [exc |-> NoneStr, client |-> "client", cache |-> "client"]

\* An adapter's return: [exc, score, cache, calls, unclosed]; calls counts
\* the generate_content calls made to the external assessor, unclosed the
\* image handles the adapter opened and has not closed when it returns.
AdapterRaise(g) ==
    [exc |-> g.exc, score |-> None, cache |-> g.cache, calls |-> 0, unclosed |-> 0]
AdapterReturn(g, score) ==
    [exc |-> NoneStr, score |-> score, cache |-> g.cache, calls |-> 0, unclosed |-> 0]

\* Mutant: a call that fails is made a second time before the fallback.
AdapterAsk_RetryOnFailure(g, resp) ==
    [exc |-> NoneStr, score |-> ScoreFromResponse(resp), cache |-> g.cache,
     calls |-> IF resp.kind = "raise" THEN 2 ELSE 1, unclosed |-> 0]

\* The adapter calls the assessor once and returns what the response gives.
AdapterAsk(g, resp) ==
    [exc |-> NoneStr, score |-> ScoreFromResponse(resp), cache |-> g.cache,
     calls |-> 1, unclosed |-> 0]

\* img = Image.open(...) followed by _assess_image_object(client, img, ...):
\* the image is opened, handed to the assessor call and neither closed nor
\* opened in a with-block, so it is still open when the adapter returns.
AssessOpenedImage(g, resp) == [AdapterAsk(g, resp) EXCEPT !.unclosed = @ + 1]

\* assess_single_image(image_path, asset_type)
assess_single_image(image_path, cache, init_ok, resp) ==
    LET g == get_gemini_client(cache, init_ok) IN
    IF g.exc # NoneStr THEN AdapterRaise(g)
    ELSE IF g.client = NoneStr THEN AdapterReturn(g, Rat(1, 2))
    ELSE IF ~PathExists(image_path) THEN AdapterReturn(g, Zero)
    ELSE IF ~ImageOpens(image_path) THEN AdapterReturn(g, Rat(1, 2))
    ELSE AssessOpenedImage(g, resp)

\* assess_base64_image(base64_data, asset_type)
assess_base64_image(base64_data, cache, init_ok, resp) ==
    LET g == get_gemini_client(cache, init_ok) IN
    IF g.exc # NoneStr THEN AdapterRaise(g)
    ELSE IF g.client = NoneStr THEN AdapterReturn(g, Rat(1, 2))
    ELSE IF ~Base64Decodes(base64_data) THEN AdapterReturn(g, Rat(1, 2))
    ELSE AssessOpenedImage(g, resp)

\* Mutant: an asset that was not supplied is scored as the neutral 0.5.
AssessAsset_AbsentNeutral(b64, path, cache, init_ok, resp) ==
    IF Truthy(b64) THEN assess_base64_image(b64, cache, init_ok, resp)
    ELSE IF Truthy(path) THEN assess_single_image(path, cache, init_ok, resp)
    ELSE [exc |-> NoneStr, score |-> Rat(1, 2), cache |-> cache, calls |-> 0, unclosed |-> 0]

\* One asset of get_dual_vision_risk_score (lines 133-139 / 141-147):
\* base64 is preferred over the file path; neither given: not assessed.
AssessAsset(b64, path, cache, init_ok, resp) ==
    IF Truthy(b64) THEN assess_base64_image(b64, cache, init_ok, resp)
    ELSE IF Truthy(path) THEN assess_single_image(path, cache, init_ok, resp)
    ELSE [exc |-> NoneStr, score |-> None, cache |-> cache, calls |-> 0, unclosed |-> 0]

\* get_dual_vision_risk_score: [exc, business_score, home_score,
\* combined_score, cache].  ib/ih, rb/rh: client construction and assessor
\* response at the business and at the home call.
get_dual_vision_risk_score(r, cache, ib, rb, ih, rh) ==
    LET b == AssessAsset(r.business_image_base64, r.business_image_path, cache, ib, rb)
        h == AssessAsset(r.home_image_base64, r.home_image_path, b.cache, ih, rh)
        scores == (IF b.score # None THEN <<b.score>> ELSE <<>>)
                  \o (IF h.score # None THEN <<h.score>> ELSE <<>>)
        total == IF Len(scores) = 2 THEN RAdd(scores[1], scores[2])
                 ELSE IF Len(scores) = 1 THEN scores[1]
                 ELSE Zero
        combined == IF Len(scores) > 0 THEN RDiv(total, Rat(Len(scores), 1))
                    ELSE Rat(1, 2)
    IN  IF b.exc # NoneStr
        THEN [exc |-> b.exc, business_score |-> None, home_score |-> None,
              combined_score |-> None, cache |-> b.cache, calls |-> b.calls,
              unclosed |-> b.unclosed]
        ELSE IF h.exc # NoneStr
        THEN [exc |-> h.exc, business_score |-> None, home_score |-> None,
              combined_score |-> None, cache |-> h.cache, calls |-> b.calls + h.calls,
              unclosed |-> b.unclosed + h.unclosed]
        ELSE [exc |-> NoneStr, business_score |-> b.score, home_score |-> h.score,
              combined_score |-> combined, cache |-> h.cache, calls |-> b.calls + h.calls,
              unclosed |-> b.unclosed + h.unclosed]

\* Mutant: the blank-text check is missing; the assessor is asked anyway.
get_nlp_risk_score_NoBlankCheck(agent_notes, cache, init_ok, resp) ==
    LET g == get_gemini_client(cache, init_ok) IN
    IF g.exc # NoneStr THEN AdapterRaise(g)
    ELSE IF g.client = NoneStr THEN AdapterReturn(g, Rat(1, 2))
    ELSE AdapterAsk(g, resp)

\* get_nlp_risk_score(agent_notes)
get_nlp_risk_score(agent_notes, cache, init_ok, resp) ==
    LET g == get_gemini_client(cache, init_ok) IN
    IF g.exc # NoneStr THEN AdapterRaise(g)
    ELSE IF g.client = NoneStr THEN AdapterReturn(g, Rat(1, 2))
    ELSE IF Blank(agent_notes) THEN AdapterReturn(g, Rat(1, 2))
    ELSE AdapterAsk(g, resp)

\* Field(ge=0, le=1) of the pydantic result models
InUnitInterval(x) == RLe(Zero, x) /\ RLe(x, One)

\* AssessmentResponse (models/assessment.py:57-67): the fields without a
\* default, and the keyword arguments assess_loan passes (lines 183-193).
ResponseRequired ==
    {"loan_id", "customer_number", "ml_score", "final_risk_score",
     "risk_category", "recommendation", "explanation", "weights_used"}
ResponsePassed ==
    {"loan_id", "customer_number", "ml_score", "vision_score", "nlp_score",
     "final_risk_score", "risk_category", "explanation", "weights_used"}

\* routers/assessment.py create_assessment: the HTTP answer for an
\* exception assess_loan raised.
RouterError(exc) ==
    IF exc = "FileNotFoundError"
    THEN [status |-> 500, detail |-> "ML model not found"]
    ELSE [status |-> 500, detail |-> "Assessment failed"]

----------------------------------------------------------------------------
(* assess_loan, step by step, for caller c *)

\* A caller outside assess_loan: no request, no locals, no outcome.
IdleProc ==
    [pc |-> "idle", req |-> None, proba |-> None, pod |-> None, features |-> None,
     explanation |-> None, read_shared |-> {},
     vision_result |-> None, combined_vision_score |-> None,
     nlp_result |-> None, nlp_score |-> None,
     final_score |-> None, weights_used |-> None, risk_category |-> NoneStr,
     exc |-> NoneStr, result |-> None, http |-> None]

OffProc == [IdleProc EXCEPT !.pc = "off"]

\* get_model not called yet, nothing read from the classifier file; no call
\* has assigned a cache.
NoLoads == [calls |-> 0, reads |-> 0, loaded |-> 0]
NoWriter == [model |-> NoneStr, client |-> NoneStr]

\* The caller's call has read the caches in `names`, assigned by another
\* caller's call.
MarkRead(p, c, names) == [p EXCEPT ![c].read_shared = @ \cup names]

\* Counting up to MaxLoads
CountUp(n, k) == IF n + k > MaxLoads THEN MaxLoads ELSE n + k

\* The engine at rest: nothing cached, no assessment running.
AssessIdle ==
    /\ settings_attrs = SettingsAssumed
    /\ api_key = "key"
    /\ artifact = "ok"
    /\ model_cache = NoneStr
    /\ client_cache = NoneStr
    /\ proc = [c \in Callers |-> OffProc]
    /\ clock = Day(20000)
    /\ load_log = NoLoads
    /\ cache_writer = NoWriter
    /\ prev = None

\* An exception leaves assess_loan; create_assessment turns it into an
\* HTTPException (routers/assessment.py:32-38).
Raised(c, kind) ==
    [proc EXCEPT ![c].pc = "done", ![c].exc = kind, ![c].http = RouterError(kind)]

\* create_assessment receives a request; p is what the classifier's
\* predict_proba answers for the features of this request.
Start(c) ==
    /\ proc[c].pc = "idle"
    /\ \E r \in Requests, p \in PodOutcomes :
           proc' = [proc EXCEPT ![c] =
                       [IdleProc EXCEPT !.pc = "get_model", !.req = r, !.proba = p]]
    /\ UNCHANGED <<settings_attrs, api_key, artifact, clock, prev, model_cache, client_cache, load_log, cache_writer, varsScore, varsAdapter, varsFeatures>>

\* Mutant: the loaded classifier is returned but not kept in _model.
get_model_NotCached(cache, art, err) ==
    IF cache # NoneStr
    THEN [exc |-> NoneStr, cache |-> cache, reads |-> 0, loaded |-> 0]
    ELSE IF "MODEL_PATH" \notin settings_attrs
    THEN [exc |-> "AttributeError", cache |-> cache, reads |-> 0, loaded |-> 0]
    ELSE IF art = "absent"
    THEN [exc |-> "FileNotFoundError", cache |-> cache, reads |-> 0, loaded |-> 0]
    ELSE IF art = "corrupt"
    THEN [exc |-> err, cache |-> cache, reads |-> 1, loaded |-> 0]
    ELSE [exc |-> NoneStr, cache |-> cache, reads |-> 1, loaded |-> 1]

\* ml_inference.get_model(): [exc, cache, reads, loaded] - the exception it
\* raises (or NoneStr), _model afterwards, whether the file was opened and
\* read and whether a classifier was loaded from it.  art is the state of
\* the file, err what open() / pickle.load raise on a corrupt one.
get_model(cache, art, err) ==
    IF cache # NoneStr
    THEN [exc |-> NoneStr, cache |-> cache, reads |-> 0, loaded |-> 0]
    ELSE IF "MODEL_PATH" \notin settings_attrs
    THEN [exc |-> "AttributeError", cache |-> cache, reads |-> 0, loaded |-> 0]
    ELSE IF art = "absent"
    THEN [exc |-> "FileNotFoundError", cache |-> cache, reads |-> 0, loaded |-> 0]
    ELSE IF art = "corrupt"
    THEN [exc |-> err, cache |-> cache, reads |-> 1, loaded |-> 0]
    ELSE [exc |-> NoneStr, cache |-> "model", reads |-> 1, loaded |-> 1]

\* get_model(), called first by predict_default_probability
GetModel(c) ==
    /\ proc[c].pc = "get_model"
    /\ \E err \in LoadErrors :
           LET m == get_model(model_cache, artifact, err)
               foreign == IF model_cache # NoneStr /\ cache_writer.model # c
                          THEN {"_model"} ELSE {}
           IN  /\ model_cache' = m.cache
               /\ load_log' = [calls  |-> CountUp(load_log.calls, 1),
                               reads  |-> CountUp(load_log.reads, m.reads),
                               loaded |-> CountUp(load_log.loaded, m.loaded)]
               /\ cache_writer' = IF m.loaded = 1
                                  THEN [cache_writer EXCEPT !.model = c]
                                  ELSE cache_writer
               /\ proc' = IF m.exc # NoneStr
                          THEN Raised(c, m.exc)
                          ELSE MarkRead([proc EXCEPT ![c].pc = "predict"], c, foreign)
    /\ UNCHANGED <<settings_attrs, api_key, artifact, clock, prev, client_cache, varsScore, varsAdapter, varsFeatures>>

\* prepare_features (called without `today`), model.predict_proba and
\* MLScoreResult(...) (ml_inference.py:148-162, scoring_engine.py:126-129)
Predict(c) ==
    LET r == proc[c].req IN
    /\ proc[c].pc = "predict"
    /\ proc' = [proc EXCEPT
            ![c].pc = "vision",
            ![c].features = prepare_features(r.principal_amount, r.outstanding_amount,
                                             r.marital_status, r.date_of_birth,
                                             r.bills_data, NoDate, clock),
            ![c].pod = proc[c].proba]
    /\ UNCHANGED <<settings_attrs, api_key, artifact, clock, prev, model_cache, client_cache, load_log, cache_writer, varsScore, varsAdapter, varsFeatures>>

\* get_gemini_client() inside an adapter called by caller c (asked: the
\* adapter reaches its get_gemini_client() line): it returns the cached
\* _client when another caller's call has assigned it, and the call that
\* finds _client empty and constructs a client assigns it.
ForeignClient(c, asked) ==
    IF asked /\ client_cache # NoneStr /\ cache_writer.client # c
    THEN {"_client"} ELSE {}

ClientWriter(c, cache_after) ==
    IF client_cache = NoneStr /\ cache_after # NoneStr
    THEN [cache_writer EXCEPT !.client = c]
    ELSE cache_writer

\* scoring_engine.py:135-138.  `or` stops at the first truthy operand, so
\* the two base64 attributes are read only when both paths are falsy.
HasImagesReadsBase64(r) ==
    ~Truthy(r.business_image_path) /\ ~Truthy(r.home_image_path)

has_images(r) ==
    \/ Truthy(r.business_image_path)
    \/ Truthy(r.home_image_path)
    \/ Truthy(r.business_image_base64)
    \/ Truthy(r.home_image_base64)

\* Step 2 of assess_loan (lines 131-151)
Vision(c) ==
    LET r == proc[c].req IN
    /\ proc[c].pc = "vision"
    /\ IF HasImagesReadsBase64(r) /\ ~r.has_b64_fields
       THEN \* line 137: the request has no attribute business_image_base64
            /\ proc' = Raised(c, "AttributeError")
            /\ UNCHANGED <<client_cache, cache_writer>>
       ELSE IF ~has_images(r)
       THEN /\ proc' = [proc EXCEPT ![c].pc = "nlp"]
            /\ UNCHANGED <<client_cache, cache_writer>>
       ELSE IF ~r.has_b64_fields
       THEN \* line 144: evaluating the call's arguments
            /\ proc' = Raised(c, "AttributeError")
            /\ UNCHANGED <<client_cache, cache_writer>>
       ELSE \E ib \in BOOLEAN, ih \in BOOLEAN,
               rb \in AssessorResponses, rh \in AssessorResponses :
               LET v == get_dual_vision_risk_score(r, client_cache, ib, rb, ih, rh) IN
               /\ client_cache' = v.cache
               /\ cache_writer' = ClientWriter(c, v.cache)
               /\ IF v.exc # NoneStr
                  THEN proc' = Raised(c, v.exc)
                  ELSE IF ~InUnitInterval(v.combined_score)
                  THEN \* VisionScoreResult: combined_score ge=0, le=1
                       proc' = MarkRead(Raised(c, "ValidationError"), c, ForeignClient(c, TRUE))
                  ELSE proc' = MarkRead([proc EXCEPT
                           ![c].pc = "nlp",
                           ![c].combined_vision_score = v.combined_score,
                           ![c].vision_result =
                               [business_score |-> v.business_score,
                                home_score     |-> v.home_score,
                                combined_score |-> v.combined_score]],
                           c, ForeignClient(c, TRUE))
    /\ UNCHANGED <<settings_attrs, api_key, artifact, clock, prev, model_cache, load_log, varsScore, varsAdapter, varsFeatures>>

\* Step 3 of assess_loan (lines 153-162)
Nlp(c) ==
    LET r == proc[c].req IN
    /\ proc[c].pc = "nlp"
    /\ IF ~Truthy(r.field_agent_notes)
       THEN /\ proc' = [proc EXCEPT ![c].pc = "fuse"]
            /\ UNCHANGED <<client_cache, cache_writer>>
       ELSE \E i \in BOOLEAN, resp \in AssessorResponses :
               LET n == get_nlp_risk_score(r.field_agent_notes, client_cache, i, resp) IN
               /\ client_cache' = n.cache
               /\ cache_writer' = ClientWriter(c, n.cache)
               /\ IF n.exc # NoneStr
                  THEN proc' = Raised(c, n.exc)
                  ELSE IF ~InUnitInterval(n.score)
                  THEN \* NLPScoreResult: sentiment_score ge=0, le=1
                       proc' = MarkRead(Raised(c, "ValidationError"), c,
                                        ForeignClient(c, ~Blank(r.field_agent_notes)))
                  ELSE proc' = MarkRead([proc EXCEPT
                           ![c].pc = "fuse",
                           ![c].nlp_score = n.score,
                           ![c].nlp_result =
                               [sentiment_score |-> n.score,
                                analyzed_text   |-> r.field_agent_notes]],
                           c, ForeignClient(c, ~Blank(r.field_agent_notes)))
    /\ UNCHANGED <<settings_attrs, api_key, artifact, clock, prev, model_cache, load_log, varsScore, varsAdapter, varsFeatures>>

\* Steps 4, 5 and 6 of assess_loan (lines 164-181)
Fuse(c) ==
    /\ proc[c].pc = "fuse"
    /\ LET f == calculate_final_score(proc[c].pod, proc[c].combined_vision_score,
                                      proc[c].nlp_score, DEFAULT_WEIGHTS)
           risk_category == get_risk_category(f.final_score)
       IN  proc' = [proc EXCEPT
               ![c].pc = "respond",
               ![c].final_score = f.final_score,
               ![c].weights_used = f.active_weights,
               ![c].risk_category = risk_category,
               ![c].explanation =
                   generate_explanation(proc[c].pod, proc[c].combined_vision_score,
                                        proc[c].nlp_score, f.final_score, risk_category)]
    /\ UNCHANGED <<settings_attrs, api_key, artifact, clock, prev, model_cache, client_cache, load_log, cache_writer, varsScore, varsAdapter, varsFeatures>>

\* The keyword arguments of AssessmentResponse(...) at lines 183-193, as a
\* record of the fields passed.
ResponseKwargs(c) ==
    [ml_score         |-> [probability_of_default |-> proc[c].pod,
                           features_used          |-> proc[c].features],
     vision_score     |-> proc[c].vision_result,
     nlp_score        |-> proc[c].nlp_result,
     final_risk_score |-> proc[c].final_score,
     risk_category    |-> proc[c].risk_category,
     explanation      |-> proc[c].explanation,
     weights_used     |-> proc[c].weights_used]

\* return AssessmentResponse(...): pydantic validates the construction.
Respond(c) ==
    /\ proc[c].pc = "respond"
    /\ IF ResponseRequired \subseteq ResponsePassed /\ InUnitInterval(proc[c].final_score)
       THEN proc' = [proc EXCEPT
                ![c].pc = "done",
                ![c].result = ResponseKwargs(c),
                ![c].http = [status |-> 200, detail |-> "OK"]]
       ELSE proc' = Raised(c, "ValidationError")
    /\ UNCHANGED <<settings_attrs, api_key, artifact, clock, prev, model_cache, client_cache, load_log, cache_writer, varsScore, varsAdapter, varsFeatures>>

\* The handler has answered; the caller may send its next request.
Finish(c) ==
    /\ proc[c].pc = "done"
    /\ proc' = [proc EXCEPT ![c] = IdleProc]
    /\ UNCHANGED <<settings_attrs, api_key, artifact, clock, prev, model_cache, client_cache, load_log, cache_writer, varsScore, varsAdapter, varsFeatures>>

\* One process serving one request after another.
Init ==
    /\ settings_attrs \in {SettingsDeclared, SettingsAssumed}
    /\ api_key \in {"", "key"}
    /\ settings_attrs = SettingsDeclared => api_key = ""
    /\ artifact \in {"absent", "corrupt", "ok"}
    /\ model_cache = NoneStr
    /\ client_cache = NoneStr
    /\ proc = [c \in Callers |-> IF c = "a" THEN IdleProc ELSE OffProc]
    /\ clock = Day(20000)
    /\ load_log = NoLoads
    /\ cache_writer = NoWriter
    /\ prev = None
    /\ fuse_args = None
    /\ fuse_ret = None
    /\ pol_score = None
    /\ pol_category = NoneStr
    /\ pol_recommendation = NoneStr
    /\ default_weights = DEFAULT_WEIGHTS
    /\ explanation = None
    /\ ad_call = None /\ ad_ret = None
    /\ feat_args = None /\ feat_ret = None /\ feat_columns = None

Next ==
    \E c \in Callers :
        \/ Start(c)
        \/ GetModel(c)
        \/ Predict(c)
        \/ Vision(c)
        \/ Nlp(c)
        \/ Fuse(c)
        \/ Respond(c)
        \/ Finish(c)

Spec == Init /\ [][Next]_vars

----------------------------------------------------------------------------
(* SpecConcurrent: two callers inside assess_loan at the same time, in one *)
(* process whose settings provide what the services read.  The steps of    *)
(* the two calls interleave in every order, running one call to its end    *)
(* before the other starts included.                                       *)

\* Requests with notes or without, no images.
ConcurrentRequests ==
    { r \in Requests :
        /\ r.has_b64_fields
        /\ ~has_images(r)
        /\ r.business_image_path = NoneStr
        /\ r.field_agent_notes \in {NoneStr, "cooperative"} }

InitConcurrent ==
    /\ settings_attrs = SettingsAssumed
    /\ api_key = "key"
    /\ artifact = "ok"
    /\ model_cache = NoneStr
    /\ client_cache = NoneStr
    /\ proc = [c \in Callers |-> IdleProc]
    /\ clock = Day(20000)
    /\ load_log = NoLoads
    /\ cache_writer = NoWriter
    /\ prev = None
    /\ fuse_args = None
    /\ fuse_ret = None
    /\ pol_score = None
    /\ pol_category = NoneStr
    /\ pol_recommendation = NoneStr
    /\ default_weights = DEFAULT_WEIGHTS
    /\ explanation = None
    /\ ad_call = None /\ ad_ret = None
    /\ feat_args = None /\ feat_ret = None /\ feat_columns = None

\* create_assessment receives caller c's request while the other caller's
\* may be in progress.
StartConcurrent(c) ==
    /\ proc[c].pc = "idle"
    /\ \E r \in ConcurrentRequests, p \in PodOutcomes :
           proc' = [proc EXCEPT ![c] =
                       [IdleProc EXCEPT !.pc = "get_model", !.req = r, !.proba = p]]
    /\ UNCHANGED <<settings_attrs, api_key, artifact, clock, prev, model_cache, client_cache, load_log, cache_writer, varsScore, varsAdapter, varsFeatures>>

NextConcurrent ==
    \E c \in Callers :
        \/ StartConcurrent(c)
        \/ GetModel(c)
        \/ Predict(c)
        \/ Vision(c)
        \/ Nlp(c)
        \/ Fuse(c)
        \/ Respond(c)

SpecConcurrent == InitConcurrent /\ [][NextConcurrent]_vars

\* C29: across a sequence of assessments in one process the classifier is
\* loaded at most once; once _model is set, a get_model call returns it and
\* neither reads the file nor assigns _model again; a get_model call that
\* raises leaves _model empty, and a call that finds _model empty and a file
\* at MODEL_PATH reads the file (again).
C29_LoadedAtMostOnce ==
    [][ /\ load_log'.loaded <= 1
        /\ model_cache # NoneStr =>
               /\ model_cache' = model_cache
               /\ load_log'.reads = load_log.reads
               /\ load_log'.loaded = load_log.loaded
        /\ \A c \in Callers :
               (proc[c].pc = "get_model" /\ proc'[c].pc # "get_model") =>
                   /\ model_cache # NoneStr => proc'[c].pc = "predict"
                   /\ (model_cache = NoneStr /\ proc'[c].exc # NoneStr) =>
                          model_cache' = NoneStr
                   /\ (model_cache = NoneStr /\ "MODEL_PATH" \in settings_attrs
                          /\ artifact # "absent") =>
                          (load_log'.reads > load_log.reads \/ load_log.reads = MaxLoads)
      ]_vars

\* A second get_model call was served from _model: two calls, one read.
C29_Witness ==
    /\ load_log.calls = 2
    /\ load_log.reads = 1
    /\ load_log.loaded = 1
    /\ model_cache = "model"
    /\ proc["a"].pc = "predict"

\* A second get_model call after a failed load read the file again.
C29_RetriedAfterFailure ==
    /\ load_log.calls = 2
    /\ load_log.reads = 2
    /\ load_log.loaded = 0
    /\ model_cache = NoneStr
    /\ proc["a"].exc \in LoadErrors

----------------------------------------------------------------------------
(* SpecRepeat: one caller sends a request, keeps what the call computed,   *)
(* and sends the same request again; the classifier answers the same, no   *)
(* assessor is consulted, and days pass.                                    *)

\* Requests that consult no assessor: no images, notes absent or blank.
RepeatRequests ==
    { r \in Requests :
        /\ r.has_b64_fields
        /\ ~has_images(r)
        /\ r.business_image_path = NoneStr
        /\ Blank(r.field_agent_notes) }

\* What a call of assess_loan computed for the response.
Outcome(c) ==
    [features              |-> proc[c].features,
     pod                   |-> proc[c].pod,
     combined_vision_score |-> proc[c].combined_vision_score,
     nlp_score             |-> proc[c].nlp_score,
     final_score           |-> proc[c].final_score,
     risk_category         |-> proc[c].risk_category,
     explanation           |-> proc[c].explanation,
     weights_used          |-> proc[c].weights_used]

InitRepeat ==
    /\ settings_attrs = SettingsAssumed
    /\ api_key = "key"
    /\ artifact = "ok"
    /\ model_cache = NoneStr
    /\ client_cache = NoneStr
    /\ proc = [c \in Callers |-> IF c = "a" THEN IdleProc ELSE OffProc]
    /\ clock = Day(20000)
    /\ load_log = NoLoads
    /\ cache_writer = NoWriter
    /\ prev = None
    /\ fuse_args = None
    /\ fuse_ret = None
    /\ pol_score = None
    /\ pol_category = NoneStr
    /\ pol_recommendation = NoneStr
    /\ default_weights = DEFAULT_WEIGHTS
    /\ explanation = None
    /\ ad_call = None /\ ad_ret = None
    /\ feat_args = None /\ feat_ret = None /\ feat_columns = None

\* create_assessment receives a request: any request the first time, the
\* same request with the same answer of predict_proba the second time.
StartRepeat(c) ==
    /\ proc[c].pc = "idle"
    /\ IF prev = None
       THEN \E r \in RepeatRequests, p \in PodOutcomes :
               proc' = [proc EXCEPT ![c] =
                           [IdleProc EXCEPT !.pc = "get_model", !.req = r, !.proba = p]]
       ELSE proc' = [proc EXCEPT ![c] =
                        [IdleProc EXCEPT !.pc = "get_model", !.req = prev.req,
                                         !.proba = prev.proba]]
    /\ UNCHANGED <<settings_attrs, api_key, artifact, clock, prev, model_cache, client_cache, load_log, cache_writer, varsScore, varsAdapter, varsFeatures>>

\* The first call has ended; the caller keeps what it computed.
Remember(c) ==
    /\ proc[c].pc = "done"
    /\ prev = None
    /\ prev' = [req |-> proc[c].req, proba |-> proc[c].proba, outcome |-> Outcome(c)]
    /\ proc' = [proc EXCEPT ![c] = IdleProc]
    /\ UNCHANGED <<settings_attrs, api_key, artifact, clock, model_cache, client_cache, load_log, cache_writer, varsScore, varsAdapter, varsFeatures>>

\* A year passes: date.today() (ml_inference.py:81-82) answers a later date.
Tick ==
    /\ clock.day < 20000 + 365 * MaxYears
    /\ clock' = Day(clock.day + 365)
    /\ UNCHANGED <<settings_attrs, api_key, artifact, prev, proc, model_cache, client_cache, load_log, cache_writer, varsScore, varsAdapter, varsFeatures>>

NextRepeat ==
    \/ Tick
    \/ \E c \in Callers :
        \/ StartRepeat(c)
        \/ GetModel(c)
        \/ Predict(c)
        \/ Vision(c)
        \/ Nlp(c)
        \/ Fuse(c)
        \/ Respond(c)
        \/ Remember(c)

SpecRepeat == InitRepeat /\ [][NextRepeat]_vars

\* C23: for a fixed request and fixed outputs of the classifier and the
\* assessors, a second call of the assessment computes what the first call
\* computed (features, scores, tier, explanation, weights), whatever
\* happened between the two calls.
C23_RepeatedCallSameResult ==
    \A c \in Callers :
        (prev # None /\ proc[c].pc = "done"
            /\ proc[c].req = prev.req /\ proc[c].proba = prev.proba) =>
                Outcome(c) = prev.outcome

\* C25: the engine holds no shared mutable state: when two assessments run
\* concurrently, no call reads state (a module-level cache) that the other
\* caller's call has written.
C25_NoSharedState ==
    \A c \in Callers : proc[c].read_shared = {}

----------------------------------------------------------------------------
(* SpecScore: the pure functions of fusion and decision policy, applied to *)
(* inputs drawn by the initial state.                                       *)

\* Inputs next to the grid: pod = 0.56 and a signal score of 0.78.
OffGridPods == {Rat(14, 25)}
OffGridScores == {Rat(39, 50)}

FuseArgs ==
    [pod : Grid \cup OffGridPods,
     vision_score : OptGrid,
     nlp_score : OptGrid \cup OffGridScores,
     weights : WeightMaps]

InitScore ==
    /\ AssessIdle
    /\ default_weights = DEFAULT_WEIGHTS
    /\ explanation = None
    /\ ad_call = None /\ ad_ret = None
    /\ feat_args = None /\ feat_ret = None /\ feat_columns = None
    /\ fuse_ret = None
    /\ pol_category = NoneStr
    /\ pol_recommendation = NoneStr
    /\ \/ fuse_args \in FuseArgs /\ pol_score = None
       \/ fuse_args = None /\ pol_score \in Grid

\* final_score, weights_used = calculate_final_score(...); the final score is
\* what the decision policy is then applied to (scoring_engine.py:165-172).
CallCalculateFinalScore ==
    /\ fuse_args # None
    /\ fuse_ret = None
    /\ fuse_ret' = calculate_final_score(fuse_args.pod, fuse_args.vision_score,
                                         fuse_args.nlp_score, fuse_args.weights)
    /\ pol_score' = fuse_ret'.final_score
    /\ default_weights' = IF fuse_args.weights = default_weights
                          THEN fuse_ret'.weights   \* called with weights=DEFAULT_WEIGHTS
                          ELSE default_weights
    /\ UNCHANGED <<fuse_args, pol_category, pol_recommendation, explanation, varsAssess, varsAdapter, varsFeatures>>

CallGetRiskCategory ==
    /\ pol_score # None
    /\ pol_category = NoneStr
    /\ pol_category' = get_risk_category(pol_score)
    /\ UNCHANGED <<fuse_args, fuse_ret, pol_score, pol_recommendation, default_weights, explanation, varsAssess, varsAdapter, varsFeatures>>

CallGetRecommendation ==
    /\ pol_score # None
    /\ pol_recommendation = NoneStr
    /\ pol_recommendation' = get_recommendation(pol_score)
    /\ UNCHANGED <<fuse_args, fuse_ret, pol_score, pol_category, default_weights, explanation, varsAssess, varsAdapter, varsFeatures>>

\* explanation = generate_explanation(...) on the fused score and its tier
\* (scoring_engine.py:174-181)
CallGenerateExplanation ==
    /\ fuse_ret # None
    /\ pol_category # NoneStr
    /\ explanation = None
    /\ explanation' = generate_explanation(fuse_args.pod, fuse_args.vision_score,
                                           fuse_args.nlp_score, fuse_ret.final_score,
                                           pol_category)
    /\ UNCHANGED <<fuse_args, fuse_ret, pol_score, pol_category, pol_recommendation,
                   default_weights, varsAssess, varsAdapter, varsFeatures>>

NextScore ==
    \/ CallCalculateFinalScore
    \/ CallGetRiskCategory
    \/ CallGetRecommendation
    \/ CallGenerateExplanation

SpecScore == InitScore /\ [][NextScore]_vars

----------------------------------------------------------------------------
(* SpecAdapter: one call of a gemini_service adapter, in an environment and *)
(* with arguments drawn by the initial state.                               *)

ImagePaths == {"missing.jpg", "broken.jpg", "photo.jpg"}
Base64Images == {"notbase64", "b64image"}
AgentNotes == {NoneStr, "", "   ", "cooperative"}

\* The four image arguments of get_dual_vision_risk_score.
DualArgs ==
    [business_image_path   : {NoneStr, "missing.jpg", "photo.jpg"},
     home_image_path       : {NoneStr, "broken.jpg", "photo.jpg"},
     business_image_base64 : {NoneStr, "b64image"},
     home_image_base64     : {NoneStr, "notbase64", "b64image"}]

NoDualArgs ==
    [business_image_path |-> NoneStr, home_image_path |-> NoneStr,
     business_image_base64 |-> NoneStr, home_image_base64 |-> NoneStr]

\* An adapter call: the function, its arguments (NoneStr where the function
\* has no such argument), and for each of the at most two image calls whether
\* genai.Client(...) can be constructed and what the assessor answers.
AdapterCalls ==
    {k \in [fn : {"assess_single_image", "assess_base64_image",
                  "get_dual_vision_risk_score", "get_nlp_risk_score"},
            image_path : ImagePaths \cup {NoneStr},
            base64_data : Base64Images \cup {NoneStr},
            agent_notes : AgentNotes,
            dual : DualArgs,
            init_ok : BOOLEAN, resp : AssessorResponses,
            init_ok2 : BOOLEAN, resp2 : AssessorResponses] :
        /\ (k.fn = "assess_single_image") = (k.image_path # NoneStr)
        /\ (k.fn = "assess_base64_image") = (k.base64_data # NoneStr)
        /\ k.fn # "get_nlp_risk_score" => k.agent_notes = NoneStr
        /\ k.fn # "get_dual_vision_risk_score" =>
               /\ k.dual = NoDualArgs
               /\ k.init_ok2 /\ k.resp2 = [kind |-> "raise", value |-> None]}

\* The process before the call: the settings object, the key, and whether an
\* earlier call has already cached a client.
InitAdapter ==
    /\ settings_attrs \in {SettingsDeclared, SettingsAssumed}
    /\ api_key \in {"", "key"}
    /\ settings_attrs = SettingsDeclared => api_key = ""
    /\ client_cache \in {NoneStr, "client"}
    /\ client_cache = "client" => api_key = "key"
    /\ artifact = "ok"
    /\ model_cache = NoneStr
    /\ proc = [c \in Callers |-> OffProc]
    /\ clock = Day(20000)
    /\ load_log = NoLoads
    /\ cache_writer = NoWriter
    /\ prev = None
    /\ fuse_args = None /\ fuse_ret = None /\ pol_score = None
    /\ pol_category = NoneStr /\ pol_recommendation = NoneStr
    /\ default_weights = DEFAULT_WEIGHTS
    /\ explanation = None
    /\ ad_call \in AdapterCalls
    /\ ad_ret = None
    /\ feat_args = None /\ feat_ret = None /\ feat_columns = None

\* What the adapter named by call k returns when entered with the client
\* cache in state cache.
ApplyAdapter(k, cache) ==
    CASE k.fn = "assess_single_image" ->
            assess_single_image(k.image_path, cache, k.init_ok, k.resp)
      [] k.fn = "assess_base64_image" ->
            assess_base64_image(k.base64_data, cache, k.init_ok, k.resp)
      [] k.fn = "get_nlp_risk_score" ->
            get_nlp_risk_score(k.agent_notes, cache, k.init_ok, k.resp)
      [] k.fn = "get_dual_vision_risk_score" ->
            get_dual_vision_risk_score(k.dual, cache, k.init_ok, k.resp,
                                       k.init_ok2, k.resp2)

CallAdapter ==
    /\ ad_call # None
    /\ ad_ret = None
    /\ ad_ret' = ApplyAdapter(ad_call, client_cache)
    /\ client_cache' = ad_ret'.cache
    /\ UNCHANGED <<ad_call, settings_attrs, api_key, artifact, model_cache, proc, clock,
                   load_log, cache_writer, prev, varsScore, varsFeatures>>

NextAdapter == CallAdapter

SpecAdapter == InitAdapter /\ [][NextAdapter]_vars

----------------------------------------------------------------------------
(* SpecFeatures: one call of prepare_features on arguments drawn by the    *)
(* initial state.                                                          *)

\* BillData records: a bill of 0 or 2, unpaid or paid 1, scheduled on day 5
\* (or with an unparseable scheduled date), paid on day 1 (early), on day 15
\* (10 days late), not at all, or with an unparseable paid date.
Bills ==
    [amount : {0, 2}, paid_amount : {0, 1},
     bill_paid_date : {NoDate, BadDate, Day(1), Day(15)},
     bill_scheduled_date : {BadDate, Day(5)}]

BillLists == UNION {[1..n -> Bills] : n \in 0..MaxBills}

\* Dates of birth 25, 26, 35, 36, 50, 51 and 52 years less a day before
\* day 20000, a missing one and an unparseable one.
BirthDates ==
    {Day(20000 - 365 * a + 1) : a \in {26, 27, 36, 37, 51, 52}}
      \cup {Day(20000 - 365 * a) : a \in {25, 26, 35, 36, 50, 51}}
      \cup {NoDate, BadDate}

\* Calls that vary the bills and the loan amounts, and calls that vary the
\* customer and the date.
FeatureArgs ==
    [principal_amount : {-2, 0, 2}, outstanding_amount : {0, 1, 3},
     marital_status : {"MARRIED"}, date_of_birth : {Day(20000 - 365 * 30)},
     bills_data : BillLists, today : {Day(20000)}, clock : {Day(20000)}]
    \cup
    [principal_amount : {2}, outstanding_amount : {1},
     marital_status : {"MARRIED", "SINGLE"}, date_of_birth : BirthDates,
     bills_data : {<<>>}, today : {NoDate, Day(20000)},
     clock : {Day(20000), Day(20365)}]

InitFeatures ==
    /\ AssessIdle
    /\ fuse_args = None /\ fuse_ret = None /\ pol_score = None
    /\ pol_category = NoneStr /\ pol_recommendation = NoneStr
    /\ default_weights = DEFAULT_WEIGHTS
    /\ explanation = None
    /\ ad_call = None /\ ad_ret = None
    /\ feat_args \in FeatureArgs
    /\ feat_ret = None
    /\ feat_columns = None

CallPrepareFeatures ==
    /\ feat_args # None
    /\ feat_ret = None
    /\ feat_ret' = prepare_features(feat_args.principal_amount,
                                    feat_args.outstanding_amount,
                                    feat_args.marital_status,
                                    feat_args.date_of_birth,
                                    feat_args.bills_data,
                                    feat_args.today, feat_args.clock)
    /\ feat_columns' = FeatureKeys
    /\ UNCHANGED <<feat_args, varsScore, varsAssess, varsAdapter>>

NextFeatures == CallPrepareFeatures

SpecFeatures == InitFeatures /\ [][NextFeatures]_vars

----------------------------------------------------------------------------
(* Properties of score fusion and decision policy (under SpecScore) *)

\* The call under test has returned and was made with the default weights.
FusedDefault == fuse_ret # None /\ fuse_args.weights = DEFAULT_WEIGHTS

\* C1: for every pod in [0,1] and every vision and nlp that is absent or in
\* [0,1], the final score calculate_final_score returns under the default
\* weights lies in [0,1].
C1_FinalScoreInUnitInterval ==
    FusedDefault =>
        /\ RLe(Zero, fuse_ret.final_score)
        /\ RLe(fuse_ret.final_score, One)

\* Both signals present at their worst and pod = 1: the score is exactly 1.
C1_Witness ==
    /\ FusedDefault
    /\ fuse_args.pod = One
    /\ fuse_args.vision_score = Zero
    /\ fuse_args.nlp_score = Zero
    /\ fuse_ret.final_score = One

\* The value C2 states: (0.70*pod + sum over present signals of
\* 0.15*(1 - signal)) / (0.70 + 0.15 per present signal) * 1.00, clamped.
C2_Stated(pod, vision, nlp) ==
    LET risk(sig) == IF sig # None THEN RMul(Rat(15, 100), RSub(One, sig)) ELSE Zero
        wt(sig)   == IF sig # None THEN Rat(15, 100) ELSE Zero
        num == RAdd(RMul(Rat(70, 100), pod), RAdd(risk(vision), risk(nlp)))
        den == RAdd(Rat(70, 100), RAdd(wt(vision), wt(nlp)))
        raw == RMul(RDiv(num, den), Rat(100, 100))
    IN  IF RLt(One, raw) THEN One ELSE IF RLt(raw, Zero) THEN Zero ELSE raw

C2_Example ==
    /\ FusedDefault
    /\ fuse_args.pod = Rat(9, 10)
    /\ fuse_args.vision_score = Rat(1, 10)
    /\ fuse_args.nlp_score = None

\* C2: with the default weights the final score is the stated weighted
\* average over the present signals, each inverted to 1 - score; pod = 0.9,
\* vision = 0.1, nlp absent gives 0.9, VERY_HIGH, REJECT.
C2_WeightedAverageOfPresentSignals ==
    /\ FusedDefault =>
           fuse_ret.final_score =
               C2_Stated(fuse_args.pod, fuse_args.vision_score, fuse_args.nlp_score)
    /\ C2_Example =>
           /\ fuse_ret.final_score = Rat(9, 10)
           /\ pol_category \in {NoneStr, "VERY_HIGH"}
           /\ pol_recommendation \in {NoneStr, "REJECT"}

C2_Witness ==
    /\ C2_Example
    /\ fuse_ret.final_score = Rat(9, 10)
    /\ pol_category = "VERY_HIGH"
    /\ pol_recommendation = "REJECT"

C4_PerfectVisionLowersScore ==
    (/\ FusedDefault
     /\ RLt(Zero, fuse_args.pod)
     /\ fuse_args.vision_score = One
     /\ fuse_args.nlp_score = None)
        => RLt(fuse_ret.final_score,
               calculate_final_score(fuse_args.pod, None, None,
                                     DEFAULT_WEIGHTS).final_score)

C4_Witness ==
    /\ FusedDefault
    /\ fuse_args.pod = Rat(8, 10)
    /\ fuse_args.vision_score = One
    /\ fuse_args.nlp_score = None
    /\ RLt(fuse_ret.final_score, Rat(8, 10))

\* C5: get_risk_category maps a score in [0,1] to LOW iff s < 0.3, MEDIUM
\* iff 0.3 <= s < 0.5, HIGH iff 0.5 <= s < 0.7, VERY_HIGH iff s >= 0.7.
C5_RiskTierThresholds ==
    pol_category # NoneStr =>
        /\ pol_category \in {"LOW", "MEDIUM", "HIGH", "VERY_HIGH"}
        /\ pol_category = "LOW" <=> RLt(pol_score, Rat(3, 10))
        /\ pol_category = "MEDIUM" <=>
               (RLe(Rat(3, 10), pol_score) /\ RLt(pol_score, Rat(5, 10)))
        /\ pol_category = "HIGH" <=>
               (RLe(Rat(5, 10), pol_score) /\ RLt(pol_score, Rat(7, 10)))
        /\ pol_category = "VERY_HIGH" <=> RLe(Rat(7, 10), pol_score)

\* A score of exactly 0.3, handed to the policy directly, is MEDIUM.
C5_Witness ==
    /\ fuse_args = None
    /\ pol_score = Rat(3, 10)
    /\ pol_category = "MEDIUM"

FusedVisionAbsent ==
    calculate_final_score(fuse_args.pod, None, fuse_args.nlp_score, fuse_args.weights)

\* An absent signal adds nothing to weighted_sum or total_weight; a signal
\* equal to 0.5 adds its full nominal weight to total_weight and
\* weight * 0.5 to weighted_sum.
C14_Contributions ==
    /\ (fuse_ret # None /\ fuse_args.vision_score = None /\ fuse_args.nlp_score = None) =>
          /\ fuse_ret.total_weight = fuse_args.weights.pod
          /\ fuse_ret.weighted_sum = RMul(fuse_args.weights.pod, fuse_args.pod)
    /\ (fuse_ret # None /\ fuse_args.vision_score = Rat(1, 2)) =>
          /\ fuse_ret.total_weight =
                 RAdd(FusedVisionAbsent.total_weight, fuse_args.weights.vision)
          /\ fuse_ret.weighted_sum =
                 RAdd(FusedVisionAbsent.weighted_sum,
                      RMul(fuse_args.weights.vision, Rat(1, 2)))

\* C14 as stated: the contributions above, and with the nominal weights, for
\* every pod other than 0.5, the final score with vision = 0.5 differs from
\* the final score with vision absent.
C14_Stated ==
    /\ C14_Contributions
    /\ (FusedDefault /\ fuse_args.vision_score = Rat(1, 2)
           /\ fuse_args.pod # Rat(1, 2))
       => fuse_ret.final_score # FusedVisionAbsent.final_score

\* C14: the contributions above; the final score with vision = 0.5 differs
\* from the final score with vision absent exactly when the latter is not
\* 0.5: with nlp absent that is for every pod other than 0.5, with an nlp
\* score present the two coincide also for some pod other than 0.5.
C14_AbsentVersusNeutral ==
    /\ C14_Contributions
    /\ (fuse_ret # None /\ fuse_args.vision_score = Rat(1, 2)) =>
          /\ (fuse_ret.final_score = FusedVisionAbsent.final_score)
                = (FusedVisionAbsent.final_score = Rat(1, 2))
          /\ (fuse_args.nlp_score = None /\ fuse_args.pod # Rat(1, 2))
                => fuse_ret.final_score # FusedVisionAbsent.final_score

\* pod = 0.9 with vision = 0.5 and nlp absent: 0.705 / 0.85, not 0.9.
C14_Witness ==
    /\ FusedDefault
    /\ fuse_args.pod = Rat(9, 10)
    /\ fuse_args.vision_score = Rat(1, 2)
    /\ fuse_args.nlp_score = None
    /\ fuse_ret.final_score = Rat(141, 170)
    /\ FusedVisionAbsent.final_score = Rat(9, 10)

\* C15: the weight map returned has the key pod always, vision iff a vision
\* score was passed, nlp iff an nlp score was passed, each mapped to its
\* nominal weight; the call leaves the nominal weights map as it was.
C15_ActiveWeightsAndFrame ==
    fuse_ret # None =>
        /\ DOMAIN fuse_ret.active_weights =
               {"pod"} \cup {k \in {"vision"} : fuse_args.vision_score # None}
                       \cup {k \in {"nlp"} : fuse_args.nlp_score # None}
        /\ \A k \in DOMAIN fuse_ret.active_weights :
               fuse_ret.active_weights[k] = fuse_args.weights[k]
        /\ fuse_ret.weights = fuse_args.weights
        /\ default_weights = DEFAULT_WEIGHTS

\* A call with default weights, a vision score and no nlp score.
C15_Witness ==
    /\ FusedDefault
    /\ fuse_args.vision_score = Rat(1, 10)
    /\ fuse_args.nlp_score = None
    /\ fuse_ret.active_weights = [pod |-> Rat(7, 10), vision |-> Rat(3, 20)]
    /\ default_weights = [pod |-> Rat(7, 10), vision |-> Rat(3, 20), nlp |-> Rat(3, 20)]

\* Tier of a clause as the claim states it: the first bound reached.
StatedTier(score, high, mid, names) ==
    IF RLe(high, score) THEN names[1]
    ELSE IF RLe(mid, score) THEN names[2]
    ELSE names[3]

\* Number of optional signals present in the call under test.
PresentSignals ==
    (IF fuse_args.vision_score # None THEN 1 ELSE 0)
      + (IF fuse_args.nlp_score # None THEN 1 ELSE 0)

\* C24: the explanation has its clauses in the order pod, vision, NLP,
\* closing; pod and closing always, vision iff a vision score is present, NLP
\* iff an NLP score is present (2 + present signals clauses); the pod tier
\* is chosen at 0.7 / 0.5 and each signal tier at 0.7 / 0.4.
C24_ExplanationClauses ==
    explanation # None =>
        LET n == Len(explanation)
            names == [i \in 1..n |-> explanation[i][1]]
            v == fuse_args.vision_score
            t == fuse_args.nlp_score
        IN  /\ n = 2 + PresentSignals
            /\ names = <<"pod">>
                         \o (IF v # None THEN <<"vision">> ELSE <<>>)
                         \o (IF t # None THEN <<"nlp">> ELSE <<>>)
                         \o <<"closing">>
            /\ explanation[1][2] =
                   StatedTier(fuse_args.pod, Rat(7, 10), Rat(1, 2),
                              <<"High", "Moderate", "Low">>)
            /\ v # None =>
                   explanation[2][2] =
                       StatedTier(v, Rat(7, 10), Rat(2, 5), <<"good", "average", "concern">>)
            /\ t # None =>
                   explanation[n - 1][2] =
                       StatedTier(t, Rat(7, 10), Rat(2, 5), <<"good", "average", "concern">>)
            /\ explanation[n][2] = pol_category

\* A moderate pod of exactly 0.5, a vision score of exactly 0.4 (average)
\* and no NLP score: three clauses.
C24_Witness ==
    /\ explanation # None
    /\ fuse_args.pod = Rat(1, 2)
    /\ fuse_args.vision_score = Rat(2, 5)
    /\ fuse_args.nlp_score = None
    /\ Len(explanation) = 3
    /\ explanation[1] = <<"pod", "Moderate", 500>>
    /\ explanation[2] = <<"vision", "average">>

\* C28: for every weights map passed, the final score is the weighted
\* average weighted_sum / total_weight multiplied by the sum of the three
\* weights of that same map, then clamped to [0, 1].
C28_RescaledByPassedWeights ==
    fuse_ret # None =>
        fuse_ret.final_score =
            Clamp01(RMul(RDiv(fuse_ret.weighted_sum, fuse_ret.total_weight),
                         SumValues(fuse_args.weights)))

\* The final score of the call under test with its pod, vision score or
\* nlp score replaced.
FusedWithPod(pod) ==
    calculate_final_score(pod, fuse_args.vision_score, fuse_args.nlp_score,
                          fuse_args.weights).final_score

FusedWithVision(vision_score) ==
    calculate_final_score(fuse_args.pod, vision_score, fuse_args.nlp_score,
                          fuse_args.weights).final_score

FusedWithNlp(nlp_score) ==
    calculate_final_score(fuse_args.pod, fuse_args.vision_score, nlp_score,
                          fuse_args.weights).final_score

\* Risk categories and recommendations from lowest to highest risk.
TierRank(category) ==
    CASE category = "LOW" -> 1 [] category = "MEDIUM" -> 2
      [] category = "HIGH" -> 3 [] category = "VERY_HIGH" -> 4

RecommendationRank(recommendation) ==
    CASE recommendation = "APPROVE" -> 1 [] recommendation = "REVIEW" -> 2
      [] recommendation = "REJECT" -> 3

\* C30: with default weights and the same signals present, the final score
\* does not decrease when pod increases and does not increase when a present
\* vision or nlp score increases; the risk tier and the recommendation do not
\* move to a lower-risk category when pod increases.
C30_Monotone ==
    FusedDefault =>
        /\ \A pod \in Grid \cup OffGridPods :
               RLe(fuse_args.pod, pod) =>
                   /\ RLe(fuse_ret.final_score, FusedWithPod(pod))
                   /\ pol_category # NoneStr =>
                          TierRank(pol_category)
                              <= TierRank(get_risk_category(FusedWithPod(pod)))
                   /\ pol_recommendation # NoneStr =>
                          RecommendationRank(pol_recommendation)
                              <= RecommendationRank(get_recommendation(FusedWithPod(pod)))
        /\ fuse_args.vision_score # None =>
               \A v \in Grid :
                   RLe(fuse_args.vision_score, v) =>
                       RLe(FusedWithVision(v), fuse_ret.final_score)
        /\ fuse_args.nlp_score # None =>
               \A t \in Grid \cup OffGridScores :
                   RLe(fuse_args.nlp_score, t) =>
                       RLe(FusedWithNlp(t), fuse_ret.final_score)

\* pod 0.5 with vision 0.4 and nlp 0.4 is HIGH / REVIEW at 0.53; a higher
\* pod of 0.9 gives 0.81, a higher vision score of 1.0 gives 0.44.
C30_Witness ==
    /\ FusedDefault
    /\ fuse_args.pod = Rat(1, 2)
    /\ fuse_args.vision_score = Rat(2, 5)
    /\ fuse_args.nlp_score = Rat(2, 5)
    /\ fuse_ret.final_score = Rat(53, 100)
    /\ pol_category = "HIGH"
    /\ pol_recommendation = "REVIEW"
    /\ FusedWithPod(Rat(9, 10)) = Rat(81, 100)
    /\ FusedWithVision(One) = Rat(11, 25)

----------------------------------------------------------------------------
(* Properties of the orchestrator (under Spec) *)

\* The request supplies no business image, no home image and no notes.
NoSignals(r) ==
    /\ ~Truthy(r.business_image_path)
    /\ ~Truthy(r.home_image_path)
    /\ ~Truthy(r.business_image_base64)
    /\ ~Truthy(r.home_image_base64)
    /\ ~Truthy(r.field_agent_notes)

\* assess_loan has ended for c, by a return or by an exception.
Ended(c) == proc[c].pc = "done"

\* assess_loan returned an AssessmentResponse to c.
Returned(c) == Ended(c) /\ proc[c].result # None

\* C7: every AssessmentResult assess_loan returns carries a recommendation
\* equal to the decision policy applied to its final risk score; an
\* assessment with pod = 0.2 and no vision/NLP returns final score 0.2,
\* tier LOW and recommendation APPROVE.  (Stated for a request object that
\* carries every attribute assess_loan reads.)
C7_ResultCarriesRecommendation ==
    \A c \in Callers :
        /\ Returned(c) =>
               /\ "recommendation" \in DOMAIN proc[c].result
               /\ proc[c].result.recommendation =
                      get_recommendation(proc[c].result.final_risk_score)
        /\ (/\ Ended(c)
            /\ proc[c].pod = Rat(1, 5)
            /\ proc[c].req.has_b64_fields
            /\ NoSignals(proc[c].req)) =>
               /\ Returned(c)
               /\ proc[c].result.final_risk_score = Rat(1, 5)
               /\ proc[c].result.risk_category = "LOW"
               /\ "recommendation" \in DOMAIN proc[c].result
               /\ proc[c].result.recommendation = "APPROVE"

\* C8: for a request with no images and no notes assess_loan completes with
\* a result once the classifier has answered: the vision and NLP results
\* are absent, weights_used holds only the pod weight, and the final score
\* is the classifier's probability.
C8_PodOnlyAssessmentCompletes ==
    \A c \in Callers :
        (Ended(c) /\ proc[c].pod # None /\ NoSignals(proc[c].req)) =>
            /\ Returned(c)
            /\ proc[c].result.vision_score = None
            /\ proc[c].result.nlp_score = None
            /\ DOMAIN proc[c].result.weights_used = {"pod"}
            /\ proc[c].result.final_risk_score = proc[c].proba

\* C9: when the classifier artifact is absent or unloadable an assessment
\* returns no result and no default probability, and fails with an error
\* the caller can tell apart from a generic processing failure.  (Stated
\* for a settings object that provides MODEL_PATH.)
C9_MissingClassifierIsDistinctFailure ==
    \A c \in Callers :
        (Ended(c) /\ artifact # "ok" /\ "MODEL_PATH" \in settings_attrs) =>
            /\ ~Returned(c)
            /\ proc[c].pod = None
            /\ proc[c].exc # NoneStr
            /\ proc[c].http # RouterError("Exception")

\* C10: whatever the external vision or text assessor does, an assessment
\* whose classifier call succeeded returns a complete AssessmentResult: a
\* signal failure never fails the request.  (Stated for a request object
\* that carries every attribute assess_loan reads.)
C10_SignalFailureNeverFailsRequest ==
    \A c \in Callers :
        (Ended(c) /\ proc[c].pod # None /\ proc[c].req.has_b64_fields)
            => Returned(c)

----------------------------------------------------------------------------
(* Properties of the signal adapters (under SpecAdapter) *)

\* The adapter call under test has returned a value (it did not raise).
AdapterReturned(fn) ==
    /\ ad_ret # None
    /\ ad_call.fn = fn
    /\ ad_ret.exc = NoneStr

\* The adapter held a client after the call: get_gemini_client gave one.
ClientAvailable == ad_ret.cache = "client"

\* C11: the image adapter returns 0.0 for a file reference that does not
\* exist, whether or not the external assessor is available, and exactly 0.5
\* on every other failure: assessor unavailable, unreadable image, service
\* error, malformed response.
C11_VisionFallbackMapping ==
    /\ AdapterReturned("assess_single_image") =>
          /\ ~PathExists(ad_call.image_path) => ad_ret.score = Zero
          /\ ( /\ PathExists(ad_call.image_path)
               /\ \/ ~ClientAvailable
                  \/ ~ImageOpens(ad_call.image_path)
                  \/ ad_call.resp.kind # "number" )
             => ad_ret.score = Rat(1, 2)
    /\ ( /\ AdapterReturned("assess_base64_image")
         /\ \/ ~ClientAvailable
            \/ ~Base64Decodes(ad_call.base64_data)
            \/ ad_call.resp.kind # "number" )
       => ad_ret.score = Rat(1, 2)

\* C12: every value returned by assess_single_image, assess_base64_image and
\* get_nlp_risk_score lies in [0, 1], whatever the external assessor answers.
C12_AdapterScoresInUnitInterval ==
    \A fn \in {"assess_single_image", "assess_base64_image", "get_nlp_risk_score"} :
        AdapterReturned(fn) => InUnitInterval(ad_ret.score)

\* An asset is supplied when its base64 text or its path is given.
Supplied(b64, path) == Truthy(b64) \/ Truthy(path)

BusinessSupplied ==
    Supplied(ad_call.dual.business_image_base64, ad_call.dual.business_image_path)

HomeSupplied ==
    Supplied(ad_call.dual.home_image_base64, ad_call.dual.home_image_path)

\* C13: get_dual_vision_risk_score returns a score for exactly the assets
\* supplied (an asset not supplied is returned as None) and its combined score
\* is the unweighted mean of the scores computed: the single score when one
\* asset is supplied, (business + home) / 2 when both are.
C13_CombinedIsMeanOfComputedScores ==
    AdapterReturned("get_dual_vision_risk_score") =>
        /\ (ad_ret.business_score # None) = BusinessSupplied
        /\ (ad_ret.home_score # None) = HomeSupplied
        /\ BusinessSupplied /\ HomeSupplied =>
               ad_ret.combined_score =
                   RDiv(RAdd(ad_ret.business_score, ad_ret.home_score), Rat(2, 1))
        /\ BusinessSupplied /\ ~HomeSupplied =>
               ad_ret.combined_score = ad_ret.business_score
        /\ ~BusinessSupplied /\ HomeSupplied =>
               ad_ret.combined_score = ad_ret.home_score

\* Both assets scored by the assessor with different scores, and separately
\* one asset alone scored away from 0.5.
C13_Witness ==
    /\ AdapterReturned("get_dual_vision_risk_score")
    /\ \/ /\ ad_ret.business_score = Rat(1, 10)
          /\ ad_ret.home_score = One
          /\ ad_ret.combined_score = Rat(11, 20)
       \/ /\ ad_ret.business_score = None
          /\ ad_ret.home_score = Rat(1, 10)
          /\ ad_ret.combined_score = Rat(1, 10)

\* C16: for empty or whitespace-only text get_nlp_risk_score does not call
\* the external text assessor, and the value it returns is 0.5.
C16_BlankNotesNeutralWithoutAssessor ==
    ( /\ ad_ret # None
      /\ ad_call.fn = "get_nlp_risk_score"
      /\ Blank(ad_call.agent_notes) )
    => /\ ad_ret.calls = 0
       /\ ad_ret.exc = NoneStr => ad_ret.score = Rat(1, 2)

\* Whitespace-only notes handed to an adapter that holds a client and whose
\* assessor would have answered with another score.
C16_Witness ==
    /\ AdapterReturned("get_nlp_risk_score")
    /\ ad_call.agent_notes = "   "
    /\ ClientAvailable
    /\ ad_call.resp = [kind |-> "number", value |-> Rat(1, 10)]
    /\ ad_ret.score = Rat(1, 2)
    /\ ad_ret.calls = 0

\* Number of assets supplied to the dual adapter call under test.
AssetsSupplied ==
    (IF BusinessSupplied THEN 1 ELSE 0) + (IF HomeSupplied THEN 1 ELSE 0)

\* C26: no external call is retried: the assessor is invoked at most once
\* per supplied image and at most once for the notes, and an invocation that
\* fails is followed by the fallback score, not by another invocation.
C26_NoRetry ==
    ad_ret # None =>
        /\ ad_call.fn \in {"assess_single_image", "assess_base64_image",
                           "get_nlp_risk_score"} =>
               /\ ad_ret.calls <= 1
               /\ (ad_ret.calls >= 1 /\ ad_call.resp.kind # "number") =>
                      ad_ret.score = Rat(1, 2)
        /\ ad_call.fn = "get_dual_vision_risk_score" =>
               ad_ret.calls <= AssetsSupplied

\* The assessor raised on the one call made for a readable image, and
\* separately both images of a dual call were assessed with two calls.
C26_Witness ==
    /\ ad_ret # None
    /\ \/ /\ ad_call.fn = "assess_single_image"
          /\ ad_call.resp.kind = "raise"
          /\ ad_ret.calls = 1
          /\ ad_ret.score = Rat(1, 2)
       \/ /\ ad_call.fn = "get_dual_vision_risk_score"
          /\ ad_call.resp.kind = "raise"
          /\ ad_ret.calls = 2

\* C27: every image handle the vision adapter opens is closed before the
\* adapter returns, on every exit path, the assessor raising included.
C27_ImageHandlesClosed ==
    (ad_ret # None /\ ad_call.fn \in {"assess_single_image", "assess_base64_image",
                                      "get_dual_vision_risk_score"})
        => ad_ret.unclosed = 0

----------------------------------------------------------------------------
(* Properties of feature building (under SpecFeatures) *)

\* The bills of the call under test.
BillsOfCall == feat_args.bills_data

\* A bill whose paid date and scheduled date are both calendar dates.
Dated(b) == b.bill_paid_date.kind = "date" /\ b.bill_scheduled_date.kind = "date"

\* A bill paid on a date strictly later than its scheduled date.
PaidLate(b) == Dated(b) /\ b.bill_paid_date.day > b.bill_scheduled_date.day

\* C17: for an empty bill list prepare_features yields avg_bill_gap = 0,
\* late_ratio = 0 and paid_ratio = 0.
C17_EmptyBillsGiveZeros ==
    (feat_ret # None /\ BillsOfCall = <<>>) =>
        /\ feat_ret.avg_bill_gap = Zero
        /\ feat_ret.late_ratio = Zero
        /\ feat_ret.paid_ratio = Zero

\* A call without bills on a loan whose own ratio is not 0.
C17_Witness ==
    /\ feat_ret # None
    /\ BillsOfCall = <<>>
    /\ feat_ret.outstanding_ratio = Rat(3, 2)
    /\ feat_ret.late_ratio = Zero

\* C18: for a non-empty bill list late_ratio is the number of bills paid
\* strictly later than scheduled over the number of all bills; a bill with no
\* paid date or an unparseable date is not late and counts in the
\* denominator, and a feature row is built all the same; one bill paid 10
\* days late gives late_ratio 1.
C18_LateRatio ==
    (feat_ret # None /\ BillsOfCall # <<>>) =>
        /\ feat_ret.late_ratio =
               Rat(Cardinality({i \in 1..Len(BillsOfCall) : PaidLate(BillsOfCall[i])}),
                   Len(BillsOfCall))
        /\ (\A i \in 1..Len(BillsOfCall) : ~Dated(BillsOfCall[i])) =>
               /\ feat_ret.late_ratio = Zero
               /\ feat_ret.avg_bill_gap = Zero
        /\ (Len(BillsOfCall) = 1 /\ Dated(BillsOfCall[1])
               /\ BillsOfCall[1].bill_paid_date.day
                      = BillsOfCall[1].bill_scheduled_date.day + 10)
            => feat_ret.late_ratio = One

\* Two bills, one paid 10 days late and one never paid: late_ratio 1/2,
\* avg_bill_gap 5.
C18_Witness ==
    /\ feat_ret # None
    /\ Len(BillsOfCall) = 2
    /\ BillsOfCall[1].bill_paid_date = Day(15)
    /\ BillsOfCall[1].bill_scheduled_date = Day(5)
    /\ BillsOfCall[2].bill_paid_date = NoDate
    /\ feat_ret.late_ratio = Rat(1, 2)
    /\ feat_ret.avg_bill_gap = Rat(5, 1)

\* sum(amount) and sum(paid_amount) over the bills of the call
TotalAmount == SumOf([i \in 1..Len(BillsOfCall) |-> BillsOfCall[i].amount])
TotalPaid == SumOf([i \in 1..Len(BillsOfCall) |-> BillsOfCall[i].paid_amount])

\* C19: paid_ratio is sum(paid_amount) / sum(amount) when sum(amount) > 0
\* and the number 0 when sum(amount) is 0.
C19_PaidRatio ==
    (feat_ret # None /\ BillsOfCall # <<>>) =>
        /\ TotalAmount > 0 =>
               RMul(feat_ret.paid_ratio, Rat(TotalAmount, 1)) = Rat(TotalPaid, 1)
        /\ TotalAmount = 0 => feat_ret.paid_ratio = Zero

\* Bills whose amounts are all 0 although something was paid, and bills of
\* 4 in total of which 1 was paid.
C19_Witness ==
    /\ feat_ret # None
    /\ BillsOfCall # <<>>
    /\ \/ TotalAmount = 0 /\ TotalPaid = 1 /\ feat_ret.paid_ratio = Zero
       \/ TotalAmount = 4 /\ TotalPaid = 1 /\ feat_ret.paid_ratio = Rat(1, 4)

\* C20: outstanding_ratio is outstanding_amount / principal_amount when
\* principal_amount > 0 and 0 otherwise; it is not capped at 1.
C20_OutstandingRatio ==
    feat_ret # None =>
        /\ feat_args.principal_amount > 0 =>
               RMul(feat_ret.outstanding_ratio, Rat(feat_args.principal_amount, 1))
                   = Rat(feat_args.outstanding_amount, 1)
        /\ feat_args.principal_amount <= 0 => feat_ret.outstanding_ratio = Zero

\* Outstanding 3 on a principal of 2: the ratio is 1.5.
C20_Witness ==
    /\ feat_ret # None
    /\ feat_args.principal_amount = 2
    /\ feat_args.outstanding_amount = 3
    /\ feat_ret.outstanding_ratio = Rat(3, 2)
    /\ RLt(One, feat_ret.outstanding_ratio)

\* The date the call measures the age against: the `today` argument, or
\* the wall-clock date when it is not given.
AsOfDate == IF feat_args.today = NoDate THEN feat_args.clock ELSE feat_args.today

\* floor(days between the date of birth and the as-of date / 365), 0 for a
\* date of birth that is missing or does not parse.
StatedAge ==
    IF feat_args.date_of_birth.kind = "date"
    THEN (AsOfDate.day - feat_args.date_of_birth.day) \div 365
    ELSE 0

\* C21: the age bracket is young for age <= 25, adult for 26..35, mature for
\* 36..50 and senior above 50, where age is the whole number of 365-day
\* years between the date of birth and the as-of date; a missing or
\* unparseable date of birth gives age 0, hence young.
C21_AgeBracket ==
    feat_ret # None =>
        /\ StatedAge <= 25 => feat_ret.age_group = "young"
        /\ StatedAge \in 26..35 => feat_ret.age_group = "adult"
        /\ StatedAge \in 36..50 => feat_ret.age_group = "mature"
        /\ StatedAge > 50 => feat_ret.age_group = "senior"
        /\ feat_args.date_of_birth.kind # "date" => feat_ret.age_group = "young"

\* A customer exactly 35 years of 365 days old, and one whose date of birth
\* does not parse.
C21_Witness ==
    /\ feat_ret # None
    /\ \/ /\ feat_args.today = Day(20000)
          /\ feat_args.date_of_birth = Day(20000 - 365 * 35)
          /\ feat_ret.age_group = "adult"
       \/ /\ feat_args.date_of_birth = BadDate
          /\ feat_ret.age_group = "young"

\* C22: for every input prepare_features returns exactly the eight keys
\* principal_amount, outstanding_amount, outstanding_ratio, avg_bill_gap,
\* late_ratio, paid_ratio, marital_status, age_group, in this order.
C22_FixedFeatureShape ==
    feat_ret # None =>
        /\ Len(feat_columns) = 8
        /\ feat_columns[1] = "principal_amount"
        /\ feat_columns[2] = "outstanding_amount"
        /\ feat_columns[3] = "outstanding_ratio"
        /\ feat_columns[4] = "avg_bill_gap"
        /\ feat_columns[5] = "late_ratio"
        /\ feat_columns[6] = "paid_ratio"
        /\ feat_columns[7] = "marital_status"
        /\ feat_columns[8] = "age_group"
        /\ DOMAIN feat_ret = {feat_columns[i] : i \in 1..8}

\* Empty bills, an unparseable date of birth, and a zero principal: the
\* three inputs the claim names.
C22_Witness ==
    /\ feat_ret # None
    /\ Len(feat_columns) = 8
    /\ \/ feat_args.bills_data = <<>> /\ feat_args.date_of_birth = BadDate
       \/ feat_args.principal_amount = 0 /\ feat_args.bills_data # <<>>

====
